---- MODULE Spec2Model ----
(***************************************************************************)
(* Model of src/utils.rs of mcmc-rs: the moment estimators mean and        *)
(* sample_variance, flatten, and split_chains.                             *)
(*                                                                         *)
(* The functions are pure.  The state machine draws a chain set or an      *)
(* array from bounded sets and applies one of the four functions to it;    *)
(* the state records which function was called and what it returned.       *)
(*                                                                         *)
(* f64 values are modelled as exact rationals plus the IEEE-754 special    *)
(* values a division by zero produces (NaN, +/-Infinity).  Rounding of     *)
(* finite results is not modelled.                                         *)
(*                                                                         *)
(* split_chains and flatten never inspect a draw's value, so the draws of  *)
(* a chain set are position tags: the draw at (0-based) index j of chain i *)
(* is a number unique in the chain set.  A misplaced, duplicated or        *)
(* dropped draw is then always visible in the output.                      *)
(***************************************************************************)
EXTENDS Integers, Sequences, FiniteSets, TLC

VARIABLES chains, arr, op, ret

vars == <<chains, arr, op, ret>>

\* ---------------------------------------------------------------- bounds
MaxChains == 3
MaxDraws == 6
MaxLen == 4
MaxVal == 2

\* ------------------------------------------------------- error messages
EmptyInput == "Can't take mean of empty array"
EmptyChainSet == "Can't split empty array of chains"
NoDraws == "No samples to split"

\* ------------------------------------------------------------- results
Ok(v) == [tag |-> "Ok", val |-> v]
Err(m) == [tag |-> "Err", msg |-> m]
Panic == [tag |-> "Panic"]
NoCall == [tag |-> "None"]

\* ------------------------------------------------------------- f64
Abs(x) == IF x < 0 THEN -x ELSE x

RECURSIVE GCD(_, _)
GCD(a, b) == IF b = 0 THEN a ELSE GCD(b, a % b)

\* a finite f64: the rational n/d in lowest terms, d > 0
Fin(n, d) ==
  LET g == GCD(Abs(n), Abs(d))
      s == IF d < 0 THEN -1 ELSE 1
  IN [k |-> "num", n |-> (s * n) \div g, d |-> (s * d) \div g]

F(i) == Fin(i, 1)
NaN == [k |-> "nan"]
Inf(s) == [k |-> "inf", s |-> s]

FAdd(a, b) == Fin(a.n * b.d + b.n * a.d, a.d * b.d)
FSub(a, b) == Fin(a.n * b.d - b.n * a.d, a.d * b.d)
FMul(a, b) == Fin(a.n * b.n, a.d * b.d)

\* IEEE-754 division of finite values: x/0 is NaN for x = 0, else +/-Inf
FDiv(a, b) ==
  IF b.n = 0
  THEN IF a.n = 0 THEN NaN ELSE Inf(IF a.n < 0 THEN -1 ELSE 1)
  ELSE Fin(a.n * b.d, a.d * b.n)

\* arr.iter().sum::<f64>(): left fold from 0.0
RECURSIVE FSum(_)
FSum(s) == IF s = <<>> THEN F(0) ELSE FAdd(FSum(SubSeq(s, 1, Len(s) - 1)), s[Len(s)])

\* ------------------------------------------------------------- mean
mean_unchecked(a) == Ok(FDiv(FSum(a), F(Len(a))))

mean(a) ==
  IF Len(a) = 0
  THEN Err(EmptyInput)
  ELSE LET sum == FSum(a)
           count == F(Len(a))
       IN Ok(FDiv(sum, count))

\* ------------------------------------------------------- sample_variance
\* arr.iter().map(|x| (x - xbar).powi(2))
SqDev(a, xbar) == [i \in 1..Len(a) |-> FMul(FSub(a[i], xbar), FSub(a[i], xbar))]

sample_variance_population(a) ==
  LET m == mean(a)
  IN IF m.tag # "Ok" THEN m
     ELSE Ok(FDiv(FSum(SqDev(a, m.val)), F(Len(a))))

sample_variance(a) ==
  LET m == mean(a)
  IN IF m.tag # "Ok" THEN m
     ELSE Ok(FDiv(FSum(SqDev(a, m.val)), FSub(F(Len(a)), F(1))))

\* ------------------------------------------------------------- flatten
RECURSIVE flatten_reversed(_)
flatten_reversed(cs) ==
  IF cs = <<>> THEN <<>> ELSE flatten_reversed(Tail(cs)) \o Head(cs)

\* for chain in chains { flattened.extend(chain) }
RECURSIVE flatten(_)
flatten(cs) == IF cs = <<>> THEN <<>> ELSE Head(cs) \o flatten(Tail(cs))

\* --------------------------------------------------------- split_chains
Min(S) == CHOOSE x \in S : \A y \in S : x <= y
Max(S) == CHOOSE x \in S : \A y \in S : x >= y

num_draws_max(cs) == Max({Len(cs[i]) : i \in 1..Len(cs)})

\* chains.iter().map(|c| c.len()).min().unwrap(), on a non-empty chain set
num_draws(cs) == Min({Len(cs[i]) : i \in 1..Len(cs)})

no_draws_le(n) == n <= 1

\* if num_draws < 1
no_draws(n) == n < 1

half_offset_keep_middle(n) == IF n % 2 = 0 THEN <<n \div 2, 0>> ELSE <<(n - 1) \div 2, 0>>

half_offset_short(n) == IF n % 2 = 0 THEN <<(n \div 2) - 1, 0>> ELSE <<(n - 1) \div 2, 1>>

\* let (half, offset) = if num_draws % 2 == 0 { .. } else { .. }
half_offset(n) == IF n % 2 = 0 THEN <<n \div 2, 0>> ELSE <<(n - 1) \div 2, 1>>

SliceTo_short(chain, to) ==
  IF to > Len(chain) THEN Panic ELSE Ok(SubSeq(chain, 1, to - 1))

\* chain[..to]: panics when to > chain.len()
SliceTo(chain, to) ==
  IF to > Len(chain) THEN Panic ELSE Ok(SubSeq(chain, 1, to))

SliceFrom_skip(chain, from) ==
  IF from > Len(chain) THEN Panic ELSE Ok(SubSeq(chain, from + 2, Len(chain)))

\* chain[from..]: panics when from > chain.len()
SliceFrom(chain, from) ==
  IF from > Len(chain) THEN Panic ELSE Ok(SubSeq(chain, from + 1, Len(chain)))

RECURSIVE split_loop_swapped(_, _, _, _)
split_loop_swapped(cs, half, offset, split_draws) ==
  IF cs = <<>> THEN Ok(split_draws)
  ELSE LET first == SliceTo(Head(cs), half)
           second == SliceFrom(Head(cs), half + offset)
       IN IF first.tag = "Panic" \/ second.tag = "Panic" THEN Panic
          ELSE split_loop_swapped(Tail(cs), half, offset,
                                  Append(Append(split_draws, second.val), first.val))

\* for chain in chains { push(chain[..half]); push(chain[(half + offset)..]) }
RECURSIVE split_loop(_, _, _, _)
split_loop(cs, half, offset, split_draws) ==
  IF cs = <<>> THEN Ok(split_draws)
  ELSE LET first == SliceTo(Head(cs), half)
       IN IF first.tag = "Panic" THEN Panic
          ELSE LET second == SliceFrom(Head(cs), half + offset)
               IN IF second.tag = "Panic" THEN Panic
                  ELSE split_loop(Tail(cs), half, offset,
                                  Append(Append(split_draws, first.val), second.val))

split_chains(cs) ==
  IF Len(cs) = 0 THEN Err(EmptyChainSet)
  ELSE LET n == num_draws(cs)
       IN IF no_draws(n) THEN Err(NoDraws)
          ELSE LET ho == half_offset(n)
               IN split_loop(cs, ho[1], ho[2], <<>>)

\* ------------------------------------------------------------- inputs
\* the draw at 0-based index j of the chain at 0-based index i
Draw(i, j) == i * (MaxDraws + 1) + j

Chain(i, len) == [j \in 1..len |-> Draw(i - 1, j - 1)]

\* every chain set of at most MaxChains chains of at most MaxDraws draws
ChainSets ==
  UNION {{[i \in 1..k |-> Chain(i, lens[i])] : lens \in [1..k -> 0..MaxDraws]}
         : k \in 0..MaxChains}

\* every array of at most MaxLen values among -MaxVal..MaxVal
Arrays ==
  UNION {{[i \in 1..n |-> F(vs[i])] : vs \in [1..n -> (-MaxVal)..MaxVal]}
         : n \in 0..MaxLen}

\* ------------------------------------------------------- state machine
\* the caller holds a chain set (and no array) or an array (and no chain)
Init ==
  /\ \/ chains \in ChainSets /\ arr = <<>>
     \/ chains = <<>> /\ arr \in Arrays
  /\ op = "none"
  /\ ret = NoCall

CallMean ==
  /\ op = "none"
  /\ op' = "mean"
  /\ ret' = mean(arr)
  /\ UNCHANGED <<chains, arr>>

CallSampleVariance ==
  /\ op = "none"
  /\ op' = "sample_variance"
  /\ ret' = sample_variance(arr)
  /\ UNCHANGED <<chains, arr>>

CallFlatten ==
  /\ op = "none"
  /\ op' = "flatten"
  /\ ret' = Ok(flatten(chains))
  /\ UNCHANGED <<chains, arr>>

CallSplitChains ==
  /\ op = "none"
  /\ op' = "split_chains"
  /\ ret' = split_chains(chains)
  /\ UNCHANGED <<chains, arr>>

Next == CallMean \/ CallSampleVariance \/ CallFlatten \/ CallSplitChains

Spec == Init /\ [][Next]_vars

\* ======================================================================
\* Properties
\* ======================================================================
NumChains == Len(chains)
Lens == {Len(chains[i]) : i \in 1..NumChains}
MinLen == CHOOSE n \in Lens : \A m \in Lens : n <= m
EqualLength == \A i, j \in 1..NumChains : Len(chains[i]) = Len(chains[j])
SplitOk == op = "split_chains" /\ ret.tag = "Ok"
IsErr(r, m) == r.tag = "Err" /\ r.msg = m

\* s without its element at 1-based position p
RemoveAt(s, p) == SubSeq(s, 1, p - 1) \o SubSeq(s, p + 1, Len(s))

\* the elements of a sequence, as a set
Elems(s) == {s[i] : i \in 1..Len(s)}

\* the concatenation of f[1], ..., f[k]
RECURSIVE Concat(_, _)
Concat(f, k) == IF k = 0 THEN <<>> ELSE Concat(f, k - 1) \o f[k]

\* the total length of the first k chains
RECURSIVE LenBefore(_, _)
LenBefore(cs, k) == IF k = 0 THEN 0 ELSE LenBefore(cs, k - 1) + Len(cs[k])

\* the sum of g[1], ..., g[k], integers
RECURSIVE IntSum(_, _)
IntSum(g, k) == IF k = 0 THEN 0 ELSE IntSum(g, k - 1) + g[k]

\* C1: split_chains fails with EmptyChainSet exactly when there are zero
\* chains, with NoDraws exactly when there is at least one chain and the
\* shortest has length 0, and otherwise (unequal lengths included) returns
\* a success value: no slice is out of range.
C1_SplitErrors ==
  op = "split_chains" =>
    /\ IsErr(ret, EmptyChainSet) <=> NumChains = 0
    /\ IsErr(ret, NoDraws) <=> (NumChains >= 1 /\ MinLen = 0)
    /\ (NumChains >= 1 /\ MinLen >= 1) <=> ret.tag = "Ok"
    /\ ret.tag \in {"Ok", "Err"}

C1_Witness ==
  /\ SplitOk
  /\ NumChains >= 2
  /\ ~EqualLength

\* C2: on success with k >= 1 chains the output has 2*k chains; chain i's
\* prefix chain[0:half] is at output position 2*i and its suffix
\* chain[half+offset:end] at 2*i+1 (0-based), half and offset coming from
\* the minimum chain length.
C2_Interleaved ==
  SplitOk =>
    LET half == MinLen \div 2
        offset == MinLen % 2
    IN /\ NumChains >= 1
       /\ Len(ret.val) = 2 * NumChains
       /\ \A i \in 1..NumChains :
            /\ ret.val[2 * i - 1] = SubSeq(chains[i], 1, half)
            /\ ret.val[2 * i] = SubSeq(chains[i], half + offset + 1, Len(chains[i]))

C2_Witness ==
  /\ SplitOk
  /\ NumChains >= 2
  /\ MinLen >= 3
  /\ ~EqualLength

\* C3: for equal-length chains of odd length N the middle draw, 0-based
\* index (N-1)/2, is in neither half, every other draw is in exactly one
\* half in its original order, and both halves have length (N-1)/2.
C3_OddDropsMiddle ==
  (op = "split_chains" /\ NumChains >= 1 /\ EqualLength /\ MinLen % 2 = 1) =>
    /\ ret.tag = "Ok"
    /\ \A i \in 1..NumChains :
         LET first == ret.val[2 * i - 1]
             second == ret.val[2 * i]
             mid == (MinLen + 1) \div 2
         IN /\ chains[i][mid] \notin Elems(first) \cup Elems(second)
            /\ first \o second = RemoveAt(chains[i], mid)
            /\ Len(first) = (MinLen - 1) \div 2
            /\ Len(second) = (MinLen - 1) \div 2

C3_Witness ==
  /\ SplitOk
  /\ NumChains >= 2
  /\ EqualLength
  /\ MinLen = 5

\* C4: for equal-length chains of even length n >= 2 every output
\* half-chain has length exactly n/2.
C4_EvenHalves ==
  (op = "split_chains" /\ NumChains >= 1 /\ EqualLength
     /\ MinLen % 2 = 0 /\ MinLen >= 2) =>
    /\ ret.tag = "Ok"
    /\ Len(ret.val) = 2 * NumChains
    /\ \A j \in 1..Len(ret.val) : 2 * Len(ret.val[j]) = MinLen

C4_Witness ==
  /\ SplitOk
  /\ NumChains >= 2
  /\ EqualLength
  /\ MinLen = 4

\* C5 as stated: on every success, for every input chain, the two output
\* chains made from it have the same length.
C5_Original ==
  SplitOk =>
    \A i \in 1..NumChains : Len(ret.val[2 * i - 1]) = Len(ret.val[2 * i])

\* C5 amended: on every success, the two output chains made from input
\* chain i have the same length exactly when chain i has the minimum chain
\* length; the second half of a longer chain is longer than its first.
C5_EqualHalvesIffMinLength ==
  SplitOk =>
    \A i \in 1..NumChains :
      /\ (Len(ret.val[2 * i - 1]) = Len(ret.val[2 * i])) <=> (Len(chains[i]) = MinLen)
      /\ Len(chains[i]) > MinLen => Len(ret.val[2 * i]) > Len(ret.val[2 * i - 1])

C5_Witness ==
  /\ SplitOk
  /\ NumChains >= 2
  /\ Len(chains[1]) = MinLen
  /\ Len(chains[2]) > MinLen
  /\ MinLen >= 2

\* C6: flatten never fails and returns the chains concatenated in chain
\* order, draw order kept inside each chain; its length is the sum of the
\* chain lengths; it is empty exactly when there are no chains or all
\* chains are empty.
C6_Flatten ==
  op = "flatten" =>
    /\ ret.tag = "Ok"
    /\ Len(ret.val) = LenBefore(chains, NumChains)
    /\ \A i \in 1..NumChains : \A j \in 1..Len(chains[i]) :
         ret.val[LenBefore(chains, i - 1) + j] = chains[i][j]
    /\ ret.val = <<>> <=> (NumChains = 0 \/ \A i \in 1..NumChains : chains[i] = <<>>)

C6_Witness ==
  /\ op = "flatten"
  /\ NumChains = 3
  /\ chains[1] = <<>>
  /\ Len(chains[2]) >= 2
  /\ Len(chains[3]) >= 1

\* C7 as stated: on every success, flatten of the output is the original
\* chains each truncated to the minimum chain length, concatenated in
\* chain order, minus the middle element of each when that minimum is odd;
\* no draw at an index at or beyond the minimum length is in the output.
C7_Original ==
  SplitOk =>
    LET trunc == [i \in 1..NumChains |-> SubSeq(chains[i], 1, MinLen)]
        kept == [i \in 1..NumChains |->
                   IF MinLen % 2 = 1 THEN RemoveAt(trunc[i], (MinLen + 1) \div 2)
                   ELSE trunc[i]]
    IN /\ flatten(ret.val) = Concat(kept, NumChains)
       /\ \A i \in 1..NumChains : \A j \in (MinLen + 1)..Len(chains[i]) :
            chains[i][j] \notin Elems(flatten(ret.val))

\* C7 amended: on every success, flatten of the output is the original
\* chains in full, concatenated in chain order, minus the draw at 0-based
\* index (N-1)/2 of each chain when the minimum chain length N is odd; a
\* chain longer than N is not truncated, its draws from index N on are in
\* its second half.
C7_FlattenOfSplit ==
  SplitOk =>
    LET kept == [i \in 1..NumChains |->
                   IF MinLen % 2 = 1 THEN RemoveAt(chains[i], (MinLen + 1) \div 2)
                   ELSE chains[i]]
    IN /\ flatten(ret.val) = Concat(kept, NumChains)
       /\ \A i \in 1..NumChains : \A j \in (MinLen + 1)..Len(chains[i]) :
            chains[i][j] \in Elems(ret.val[2 * i])

C7_Witness ==
  /\ SplitOk
  /\ NumChains >= 2
  /\ MinLen = 3
  /\ \E i \in 1..NumChains : Len(chains[i]) = 5

\* C8: mean and sample_variance return the EmptyInput error exactly when
\* the input has zero elements and a success value on every non-empty
\* input, sample_variance on a single element included.
C8_EmptyInput ==
  op \in {"mean", "sample_variance"} =>
    /\ IsErr(ret, EmptyInput) <=> Len(arr) = 0
    /\ ret.tag = "Ok" <=> Len(arr) >= 1

C8_Witness ==
  /\ op = "sample_variance"
  /\ Len(arr) = 1
  /\ ret.tag = "Ok"

\* C9: for n >= 2 values mean is the sum of the elements divided by n and
\* sample_variance is the sum of squared deviations from the mean divided
\* by n - 1; mean([x]) is x.  With S the sum and Q the sum of squares, the
\* sum of squared deviations is Q - S*S/n.
C9_Moments ==
  LET n == Len(arr)
      S == IntSum([i \in 1..n |-> arr[i].n], n)
      Q == IntSum([i \in 1..n |-> arr[i].n * arr[i].n], n)
  IN /\ (op = "mean" /\ n >= 1) =>
          /\ ret.tag = "Ok"
          /\ ret.val.k = "num"
          /\ ret.val.n * n = S * ret.val.d
          /\ n = 1 => ret.val = arr[1]
     /\ (op = "sample_variance" /\ n >= 2) =>
          /\ ret.tag = "Ok"
          /\ ret.val.k = "num"
          /\ ret.val.n * n * (n - 1) = (n * Q - S * S) * ret.val.d

C9_Witness ==
  /\ op = "sample_variance"
  /\ Len(arr) = 3
  /\ ret.tag = "Ok"
  /\ ret.val.k = "num"
  /\ ret.val.n > 0

\* C10: when the minimum chain length is 1, split_chains succeeds and the
\* first half of every chain is empty; when all chains have length 1 all
\* 2*k output chains are empty, split_chains rejects the output with
\* NoDraws and mean fails on each output chain with EmptyInput.
C10_EmptyOutputChains ==
  (op = "split_chains" /\ NumChains >= 1 /\ MinLen = 1) =>
    /\ ret.tag = "Ok"
    /\ \A i \in 1..NumChains : ret.val[2 * i - 1] = <<>>
    /\ (\A i \in 1..NumChains : Len(chains[i]) = 1) =>
         /\ Len(ret.val) = 2 * NumChains
         /\ \A j \in 1..Len(ret.val) : ret.val[j] = <<>>
         /\ IsErr(split_chains(ret.val), NoDraws)
         /\ \A j \in 1..Len(ret.val) : IsErr(mean(ret.val[j]), EmptyInput)

C10_Witness ==
  /\ SplitOk
  /\ NumChains >= 2
  /\ \A i \in 1..NumChains : Len(chains[i]) = 1
  /\ ret.val[1] = <<>>

====
